---------------------------- MODULE Spec2Model ----------------------------
(***************************************************************************)
(* Model of the gym API's churn-risk engine and its event pipeline.        *)
(*                                                                         *)
(*   src/api/main.py     AlunoRiscoChurn.get  (metrics + risk tier)        *)
(*   src/churn_model.py  ChurnPredictor       (load / train / save /       *)
(*                                             retrain / predict)          *)
(*   src/consumer.py     process_checkin_message (dispatch, ack / nack)    *)
(*                                                                         *)
(* Time is counted in ticks, TicksPerDay ticks to a day, so that the       *)
(* whole-day floor of timedelta.days differs from the exact comparison of  *)
(* the 30-day window.  Probabilities are integers in units of 1/ProbScale. *)
(* Real-valued metrics are exact fractions [num, den].                     *)
(***************************************************************************)
EXTENDS Integers, Sequences, FiniteSets, TLC

\* ---------------------------------------------------------------- bounds
TicksPerDay == 2
ProbScale == 1000
MaxCheckins == 6
MaxTrain == 2
MaxPublish == 2
MaxRows == 1
MaxClockCheckins == 2
MaxTicks == 4
MaxReportRows == 3
MaxBulk == 3

\* ------------------------------------------------------------- variables
VARIABLES
    plano,      \* aluno.plano.nome_plano of the queried student, or NoPlan
    checkins,   \* rows of `checkins` for the queried student (a bag of rows)
    now,        \* datetime.now(timezone.utc), in ticks
    resp,       \* the response of the risk query in progress, or NoResp
    arquivo,    \* the file at model_path ("churn_model.joblib")
    escritores, \* the processes that hold the file open for writing
    mdl,        \* self.model of each process's ChurnPredictor
    pc,         \* where each process is
    op,         \* the ChurnPredictor step each process is at
    treinos,    \* number of fits so far (names the artifacts)
    fila,       \* checkin_queue: message bodies, head first
    publicados, \* number of messages published so far
    entrega,    \* the delivery process_checkin_message is handling
    tabela,     \* rows of the checkins table
    previsao,   \* the outcome of the API's predict call in progress
    retreinado, \* artifact of the last retrain whose message was acked
    postagem,   \* what the last POST /checkins did and answered
    pendentes,  \* deliveries the broker sent that wait for the callback
    lote,       \* what the last POST /checkins/bulk did and answered
    visto       \* days_since_last_checkin of the previous answer

riskVars == <<plano, checkins, now, resp, visto>>
pipeVars == <<arquivo, escritores, mdl, pc, op, treinos, fila, publicados,
              entrega, tabela, previsao, retreinado, postagem, pendentes,
              lote>>
vars == <<plano, checkins, now, resp, visto, arquivo, escritores, mdl, pc,
          op, treinos, fila, publicados, entrega, tabela, previsao,
          retreinado, postagem, pendentes, lote>>

\* ------------------------------------------------------------ arithmetic
\* An optional value is the empty tuple (Python's None) or a 1-tuple.
None == <<>>
Some(v) == <<v>>
Val(o) == o[1]
\* the string "N/A" the response carries in place of a number
NA == <<"N/A">>
NoPlan == "NoPlan"
NoResp == <<>>

Frac(n, d) == [num |-> n, den |-> d]
FracLt(a, b) == a.num * b.den < b.num * a.den
FracEq(a, b) == a.num * b.den = b.num * a.den

\* Python's round(x, k) on the fraction num/den, scale = 10^k: the nearest
\* multiple of 1/scale, an exact tie going to the even one.
Round(n, d, scale) ==
    LET q == (n * scale) \div d
        r == (n * scale) - q * d
    IN  IF 2 * r < d THEN q
        ELSE IF 2 * r > d THEN q + 1
        ELSE IF q % 2 = 0 THEN q ELSE q + 1

\* --------------------------------------------------------- input domains
Now0 == 41 * TicksPerDay

\* timestamp_checkin values: after `now`, at `now` (the default of
\* CheckinList.post), exactly 30 days old, and a little over 40 days old.
TsSet == {Now0 + 1, Now0, Now0 - 30 * TicksPerDay, Now0 - 40 * TicksPerDay - 1}
\* duracao_minutos is nullable.
DurSet == {None, Some(60)}
RowsDrawn == [ts : TsSet, dur : DurSet]
\* a student's check-ins 1, 5 and 40 days before Now0, lasting 60 and 55
\* minutes and with no duration recorded
CenarioA == {[ts |-> Now0 - 1 * TicksPerDay, dur |-> Some(60)],
             [ts |-> Now0 - 5 * TicksPerDay, dur |-> Some(55)],
             [ts |-> Now0 - 40 * TicksPerDay, dur |-> None]}
CheckinRows == RowsDrawn \cup CenarioA

PlanSet == {NoPlan, "Mensal", "Trimestral", "Anual", "Semestral"}

\* predict_churn_probability returns None or a probability.
ProbValues == {(3 * ProbScale) \div 10 - 1, (3 * ProbScale) \div 10,
            (5 * ProbScale) \div 10 - 1, (5 * ProbScale) \div 10,
            (7 * ProbScale) \div 10 - 1, (7 * ProbScale) \div 10}
ProbSet == {None} \cup {Some(v) : v \in ProbValues}

\* Bags of rows: a function from row to multiplicity.
EmptyBag == [r \in CheckinRows |-> 0]
BagAdd(b, r) == [b EXCEPT ![r] = @ + 1]
RECURSIVE BagsUpTo(_)
BagsUpTo(n) ==
    IF n = 0 THEN {EmptyBag}
    ELSE LET B == BagsUpTo(n - 1)
         IN  B \cup {BagAdd(b, r) : b \in B, r \in RowsDrawn}

RECURSIVE BagCount(_, _)
BagCount(S, b) ==
    IF S = {} THEN 0
    ELSE LET r == CHOOSE x \in S : TRUE
         IN  b[r] + BagCount(S \ {r}, b)

RECURSIVE BagDur(_, _)
BagDur(S, b) ==
    IF S = {} THEN 0
    ELSE LET r == CHOOSE x \in S : TRUE
         IN  b[r] * Val(r.dur) + BagDur(S \ {r}, b)

BagSize(b) == BagCount(CheckinRows, b)
HistoricoA == [r \in CheckinRows |-> IF r \in CenarioA THEN 1 ELSE 0]
Present(b) == {r \in CheckinRows : b[r] > 0}

SetMax(S) == CHOOSE x \in S : \A y \in S : y <= x
SetMin(S) == CHOOSE x \in S : \A y \in S : x <= y

\* ------------------------------------------ AlunoRiscoChurn.get: metrics
\* lines 278-285
tipo_plano_encoded_of(pl) ==
    IF pl = NoPlan THEN 0
    ELSE IF pl = "Mensal" THEN 1
    ELSE IF pl = "Trimestral" THEN 2
    ELSE IF pl = "Anual" THEN 3
    ELSE 0

\* mutant: the days counted from checkins_do_aluno[-1], the oldest row
dias_desde_primeiro_checkin_of(b, t) ==
    IF Present(b) # {}
    THEN (t - SetMin({r.ts : r \in Present(b)})) \div TicksPerDay
    ELSE 999
\* lines 290-301: checkins_do_aluno[0] is the row of greatest timestamp;
\* timedelta.days is the floor of the difference in days.
dias_desde_ultimo_checkin_of(b, t) ==
    IF Present(b) # {}
    THEN (t - SetMax({r.ts : r \in Present(b)})) \div TicksPerDay
    ELSE 999

\* lines 303-309
total_duracao_of(b) == BagDur({r \in CheckinRows : r.dur # None}, b)
\* mutant: the mean over the rows that have a duration
duracao_media_so_com_duracao(b) ==
    IF BagSize(b) > 0 /\ total_duracao_of(b) > 0
    THEN Frac(total_duracao_of(b),
              BagCount({r \in CheckinRows : r.dur # None}, b))
    ELSE Frac(0, 1)
duracao_media_visitas_minutos_of(b) ==
    IF BagSize(b) > 0 /\ total_duracao_of(b) > 0
    THEN Frac(total_duracao_of(b), BagSize(b))
    ELSE Frac(0, 1)

\* lines 311-330: the base estimate (len / total_dias_ativo) * 7, replaced
\* by len(last 30 days) / (30/7) when a row lies in the last 30 days.
total_dias_ativo_of(b, t) ==
    (t - SetMin({r.ts : r \in Present(b)})) \div TicksPerDay
base_frequencia_of(b, t) ==
    IF Present(b) # {} /\ total_dias_ativo_of(b, t) > 0
    THEN Frac(7 * BagSize(b), total_dias_ativo_of(b, t))
    ELSE Frac(0, 1)
\* mutant: the window's lower bound excluded
checkins_ultimos_30_dias_strict(b, t) ==
    BagCount({r \in CheckinRows : r.ts > t - 30 * TicksPerDay}, b)
checkins_ultimos_30_dias_of(b, t) ==
    BagCount({r \in CheckinRows : r.ts >= t - 30 * TicksPerDay}, b)
frequencia_semanal_of(b, t) ==
    IF Present(b) # {} /\ checkins_ultimos_30_dias_of(b, t) > 0
    THEN Frac(7 * checkins_ultimos_30_dias_of(b, t), 30)
    ELSE base_frequencia_of(b, t)

\* lines 332-337: the feature vector handed to the predictor
aluno_metrics_of(pl, b, t) ==
    [frequencia_semanal |-> frequencia_semanal_of(b, t),
     dias_desde_ultimo_checkin |-> dias_desde_ultimo_checkin_of(b, t),
     duracao_media_visitas_minutos |->
        LET d == duracao_media_visitas_minutos_of(b) IN Round(d.num, d.den, 10),
     tipo_plano_encoded |-> tipo_plano_encoded_of(pl)]

\* ----------------------------------- AlunoRiscoChurn.get: classification
\* "{churn_prob:.2f}" and round(churn_prob, 2): hundredths
Prob2(p) == Round(p, ProbScale, 100)

MsgMuitoAlta == "Probabilidade de Churn muito alta"
MsgAlta == "Probabilidade de Churn alta"
MsgMedia == "Probabilidade de Churn media"
MsgBaixa == "Probabilidade de Churn baixa"
MsgUltimo == "Ultimo check-in ha N dias"
MsgDuracao == "Duracao media de visitas baixa"
MsgFrequencia == "Frequencia semanal abaixo de 1"
MsgErro == "Nao foi possivel gerar previsao de churn (modelo indisponivel ou erro)."
MsgSemCheckins == "Sem check-ins registrados para analise de churn."
Contextual == {MsgUltimo, MsgDuracao, MsgFrequencia}

\* mutant: the bins open below
TierOpenBelow(p) ==
    IF 10 * p > 7 * ProbScale THEN "Muito Alto"
    ELSE IF 10 * p > 5 * ProbScale THEN "Alto"
    ELSE IF 10 * p > 3 * ProbScale THEN "Medio"
    ELSE "Baixo"
\* lines 345-361: the threshold cascade, most severe first
Tier(p) ==
    IF 10 * p >= 7 * ProbScale THEN "Muito Alto"
    ELSE IF 10 * p >= 5 * ProbScale THEN "Alto"
    ELSE IF 10 * p >= 3 * ProbScale THEN "Medio"
    ELSE "Baixo"
TierMsg(p) ==
    IF 10 * p >= 7 * ProbScale THEN MsgMuitoAlta
    ELSE IF 10 * p >= 5 * ProbScale THEN MsgAlta
    ELSE IF 10 * p >= 3 * ProbScale THEN MsgMedia
    ELSE MsgBaixa

\* mutant: the contextual reasons without the tier guard
ContextualReasonsUnguarded(tier, dias, dur, freq, total) ==
    (IF dias > 15 THEN {<<MsgUltimo, dias>>} ELSE {})
    \cup (IF FracLt(dur, Frac(30, 1)) /\ total > 5
          THEN {<<MsgDuracao, Round(dur.num, dur.den, 10)>>} ELSE {})
    \cup (IF FracLt(freq, Frac(1, 1)) /\ total > 5
          THEN {<<MsgFrequencia, Round(freq.num, freq.den, 10)>>} ELSE {})
\* lines 363-371: the contextual reasons, each guarded by tier != "Baixo"
ContextualReasons(tier, dias, dur, freq, total) ==
    (IF dias > 15 /\ tier # "Baixo" THEN {<<MsgUltimo, dias>>} ELSE {})
    \cup (IF FracLt(dur, Frac(30, 1)) /\ total > 5 /\ tier # "Baixo"
          THEN {<<MsgDuracao, Round(dur.num, dur.den, 10)>>} ELSE {})
    \cup (IF FracLt(freq, Frac(1, 1)) /\ total > 5 /\ tier # "Baixo"
          THEN {<<MsgFrequencia, Round(freq.num, freq.den, 10)>>} ELSE {})

\* mutant: the contextual reasons added on the model-unavailable branch too
ClassifyErrContext(p, dias, dur, freq, total) ==
    IF p # None
    THEN [tier |-> Tier(Val(p)),
          motivos |-> {<<TierMsg(Val(p)), Prob2(Val(p))>>}
                      \cup ContextualReasons(Tier(Val(p)), dias, dur, freq,
                                             total)]
    ELSE [tier |-> "Erro na Previsao",
          motivos |-> {<<MsgErro, 0>>}
                      \cup ContextualReasons("Erro na Previsao", dias, dur,
                                             freq, total)]
\* lines 342-376: tier and reasons before the empty-history override
Classify(p, dias, dur, freq, total) ==
    IF p # None
    THEN [tier |-> Tier(Val(p)),
          motivos |-> {<<TierMsg(Val(p)), Prob2(Val(p))>>}
                      \cup ContextualReasons(Tier(Val(p)), dias, dur, freq,
                                             total)]
    ELSE [tier |-> "Erro na Previsao", motivos |-> {<<MsgErro, 0>>}]

\* mutant: the override applied only when no probability came back
OverrideUnlessScored(c, b) ==
    IF Present(b) = {} /\ c.tier = "Erro na Previsao"
    THEN [tier |-> "Indeterminado", motivos |-> {<<MsgSemCheckins, 0>>}]
    ELSE c
\* lines 378-384: the empty-history override
Override(c, b) ==
    IF Present(b) = {}
    THEN [tier |-> "Indeterminado", motivos |-> {<<MsgSemCheckins, 0>>}]
    ELSE c

\* lines 274-399: the dictionary the method returns for model output p
RiscoChurn(pl, b, t, p) ==
    LET dias == dias_desde_ultimo_checkin_of(b, t)
        dur == duracao_media_visitas_minutos_of(b)
        freq == frequencia_semanal_of(b, t)
        total == BagSize(b)
        c == Override(Classify(p, dias, dur, freq, total), b)
        vazio == Present(b) = {}
        durOut == IF vazio THEN Frac(0, 1) ELSE dur
        freqOut == IF vazio THEN Frac(0, 1) ELSE freq
    IN  [risco_churn_classificacao |-> c.tier,
         probabilidade_churn |-> IF p # None THEN Some(Prob2(Val(p))) ELSE NA,
         motivos |-> c.motivos,
         frequencia_semanal |-> Round(freqOut.num, freqOut.den, 100),
         dias_desde_ultimo_checkin |-> IF vazio THEN NA ELSE Some(dias),
         duracao_media_visitas_minutos |-> Round(durOut.num, durOut.den, 10),
         tipo_plano_encoded |-> tipo_plano_encoded_of(pl),
         total_checkins_registrados |-> total,
         aluno_metrics |-> aluno_metrics_of(pl, b, t),
         churn_prob |-> p]

\* ------------------------------------------------ ChurnPredictor: state
\* The API (main.py:16) and the consumer (consumer.py:32) are two processes,
\* each with its own ChurnPredictor; both use the same model_path.
Procs == {"api", "consumer"}

\* self.model: None, an estimator not yet fitted (train_model, line 41), or
\* the fitted artifact number gen.
\* What fit makes of an estimator is a function of the training set and of
\* the estimator's parameters: the coefficients of a fitted model are named
\* by the two things that determine them.
\* mutant: every call of create_dummy_data gives other rows
create_dummy_data_varied(k) == <<"dummy_data", k>>
\* create_dummy_data (lines 19-34), k-th call: the same 18 rows every time
create_dummy_data(k) == <<"dummy_data", 0>>
\* LogisticRegression(solver='liblinear', random_state=42), line 41
random_state == 42
Coef(dados, seed) == [dados |-> dados, random_state |-> seed]

ModelNone == [st |-> "none", gen |-> 0, coef |-> None]
Unfitted == [st |-> "unfitted", gen |-> 0, coef |-> None]
Fitted(g) ==
    [st |-> "fitted", gen |-> g,
     coef |-> Some(Coef(create_dummy_data(g), random_state))]
\* predict_proba(input_df)[:, 1][0] (line 97): a function of the fitted
\* coefficients and of the feature vector
predict_proba(m, x) == <<Val(m.coef), x>>
\* `if self.model` / `if not self.model`
Truthy(m) == m.st # "none"

\* The file: absent; complete (artifact gen, readable); partial (opened for
\* writing by joblib.dump and not yet closed); corrupt (unreadable); vazio
\* (readable, deserialises to an empty object).
Arq(st, g) == [st |-> st, gen |-> g]
ArquivoInicial == {Arq("absent", 0), Arq("complete", 0), Arq("corrupt", 0),
                   Arq("vazio", 0)}
Exists(a) == a.st # "absent"

\* Message bodies on checkin_queue, by what json.loads and the dispatch of
\* process_checkin_message make of them.
Corpos == {"malformed", "array", "new_checkin_event", "bulk_checkin_event",
           "bulk_ids_null", "generate_daily_report_event", "report_dated",
           "report_bad_date", "retrain_model_event", "foo", "no_type"}
KnownTypes == {"new_checkin_event", "bulk_checkin_event",
               "generate_daily_report_event", "retrain_model_event"}
\* message_data.get('type') of a body that is a JSON object
TypeOf(c) ==
    IF c = "bulk_ids_null" THEN "bulk_checkin_event"
    ELSE IF c = "report_bad_date" THEN "generate_daily_report_event"
    ELSE IF c = "report_dated" THEN "generate_daily_report_event"
    ELSE IF c = "no_type" THEN "None"
    ELSE c

AlunoIds == {1}
\* timestamp_checkin of a posted row: `now` by default, or the one given
TsPosted == {Now0, Now0 + 1}
Rows == [id_aluno : AlunoIds, ts : TsPosted]

PipeIdle ==
    /\ arquivo = Arq("absent", 0)
    /\ escritores = {}
    /\ mdl = [p \in Procs |-> ModelNone]
    /\ pc = [p \in Procs |-> "down"]
    /\ op = [p \in Procs |-> "-"]
    /\ treinos = 0
    /\ fila = <<>>
    /\ publicados = 0
    /\ entrega = None
    /\ tabela = <<>>
    /\ previsao = None
    /\ retreinado = 0
    /\ postagem = None
    /\ pendentes = <<>>
    /\ lote = None

\* ------------------------------------- ChurnPredictor: how a call ends
\* The predictor call of process p returns normally: construction is over
\* (lines 12-17), predict goes on to line 91, the retrain handler is done
\* (consumer.py:99-101).
Returned(p) ==
    /\ op' = [op EXCEPT ![p] = IF pc[p] = "predict" THEN "proba" ELSE "-"]
    /\ pc' = [pc EXCEPT ![p] = IF @ = "init"
                               THEN (IF p = "api" THEN "up" ELSE "idle")
                               ELSE @]
    /\ entrega' = IF pc[p] = "callback"
                  THEN Some([Val(entrega) EXCEPT !.fase = "handled",
                                                 !.handler = "ok"])
                  ELSE entrega
    /\ UNCHANGED previsao

\* The predictor call of process p raises: nothing in churn_model.py
\* catches, so construction fails (the module import fails), predict raises
\* to AlunoRiscoChurn.get, the retrain handler raises into the except
\* clause of consumer.py:116.
Raised(p, causa) ==
    /\ op' = [op EXCEPT ![p] = "-"]
    /\ pc' = [pc EXCEPT ![p] = IF @ = "init" THEN causa ELSE @]
    /\ entrega' = IF pc[p] = "callback"
                  THEN Some([Val(entrega) EXCEPT !.fase = "except",
                                                 !.handler = "raised"])
                  ELSE entrega
    /\ previsao' = IF pc[p] = "predict"
                   THEN Some([Val(previsao) EXCEPT !.res = "raise",
                                                   !.causa = causa])
                   ELSE previsao

\* --------------------------------------------- ChurnPredictor: the steps
\* A process starts: the module-level ChurnPredictor() runs __init__, which
\* sets model = None and calls load_model.
Start(p) ==
    /\ pc[p] = "down"
    /\ pc' = [pc EXCEPT ![p] = "init"]
    /\ mdl' = [mdl EXCEPT ![p] = ModelNone]
    /\ op' = [op EXCEPT ![p] = "load"]
    /\ UNCHANGED <<arquivo, escritores, treinos, fila, publicados, entrega,
                   tabela, previsao, retreinado,
                   postagem, pendentes,
                   lote>>

\* what joblib.load makes of the file (line 53)
LoadResult(a) ==
    IF a.st = "complete" THEN Fitted(a.gen) ELSE ModelNone
LoadRaises(a) == a.st \in {"partial", "corrupt"}
LoadCausa(a) == IF a.st = "partial" THEN "crashed_partial" ELSE "crashed_load"

\* load_model, the file exists (lines 50-54)
LoadExisting(p) ==
    /\ op[p] = "load"
    /\ Exists(arquivo)
    /\ IF LoadRaises(arquivo)
       THEN /\ Raised(p, LoadCausa(arquivo))
            /\ UNCHANGED mdl
       ELSE /\ mdl' = [mdl EXCEPT ![p] = LoadResult(arquivo)]
            /\ Returned(p)
    /\ UNCHANGED <<arquivo, escritores, treinos, fila, publicados, tabela,
                   retreinado,
                   postagem, pendentes,
                   lote>>

\* train_model line 41: self.model becomes a new, unfitted estimator
TrainBegin(m) == Unfitted

\* load_model, the file is absent (lines 55-62), up to train_model line 41
LoadAbsent(p) ==
    /\ op[p] = "load"
    /\ ~Exists(arquivo)
    /\ mdl' = [mdl EXCEPT ![p] = TrainBegin(@)]
    /\ op' = [op EXCEPT ![p] = "fit"]
    /\ UNCHANGED <<arquivo, escritores, pc, treinos, fila, publicados,
                   entrega, tabela, previsao, retreinado,
                   postagem, pendentes,
                   lote>>

\* train_model line 42: fit
Fit(p) ==
    /\ op[p] = "fit"
    /\ treinos < MaxTrain
    /\ treinos' = treinos + 1
    /\ mdl' = [mdl EXCEPT ![p] = Fitted(treinos + 1)]
    /\ op' = [op EXCEPT ![p] = "dump"]
    /\ UNCHANGED <<arquivo, escritores, pc, fila, publicados, entrega,
                   tabela, previsao, retreinado,
                   postagem, pendentes,
                   lote>>

\* save_model (lines 64-70): joblib.dump opens the file for writing, which
\* truncates it; `if self.model` holds after fit.
DumpOpen(p) ==
    /\ op[p] = "dump"
    /\ Truthy(mdl[p])
    /\ arquivo' = Arq("partial", 0)
    /\ escritores' = escritores \cup {p}
    /\ op' = [op EXCEPT ![p] = "write"]
    /\ UNCHANGED <<mdl, pc, treinos, fila, publicados, entrega, tabela,
                   previsao, retreinado,
                   postagem, pendentes,
                   lote>>

\* the file once process p has written its artifact and closed it: the
\* artifact, unless another process still has the file open for writing
Closed(p) ==
    IF escritores \ {p} = {} THEN Arq("complete", mdl[p].gen)
    ELSE Arq("partial", 0)

\* joblib.dump finishes: the artifact is on disk
DumpClose(p) ==
    /\ op[p] = "write"
    /\ arquivo' = Closed(p)
    /\ escritores' = escritores \ {p}
    /\ Returned(p)
    /\ UNCHANGED <<mdl, treinos, fila, publicados, tabela, retreinado,
                   postagem, pendentes,
                   lote>>

\* joblib.dump fails on an I/O error while writing: the exception leaves
\* save_model, train_model and their caller; the file stays truncated.
DumpFail(p) ==
    /\ op[p] = "write"
    /\ arquivo' = IF escritores \ {p} = {} THEN Arq("corrupt", 0)
                  ELSE Arq("partial", 0)
    /\ escritores' = escritores \ {p}
    /\ Raised(p, "crashed_dump")
    /\ UNCHANGED <<mdl, treinos, fila, publicados, tabela, retreinado,
                   postagem, pendentes,
                   lote>>

\* ------------------------------------------- API: the scoring path
\* AlunoRiscoChurn.get calls churn_predictor.predict_churn_probability
\* (main.py:339): with no model, predict calls load_model first (lines
\* 88-89).  exigido remembers the last acked retrain at the time of the call.
ApiPredictCall ==
    /\ pc["api"] = "up"
    /\ pc' = [pc EXCEPT !["api"] = "predict"]
    /\ op' = [op EXCEPT !["api"] = IF Truthy(mdl["api"]) THEN "proba"
                                   ELSE "load"]
    /\ previsao' = Some([res |-> "pending", gen |-> 0,
                         exigido |-> retreinado, causa |-> "-"])
    /\ UNCHANGED <<arquivo, escritores, mdl, treinos, fila, publicados,
                   entrega, tabela, retreinado,
                   postagem, pendentes,
                   lote>>

\* predict_churn_probability lines 91-98: None without a model, else
\* predict_proba of self.model (which raises on an estimator not fitted)
PredictOutcome(m, pv) ==
    IF ~Truthy(m) THEN [pv EXCEPT !.res = "none"]
    ELSE IF m.st = "fitted" THEN [pv EXCEPT !.res = "prob", !.gen = m.gen]
    ELSE [pv EXCEPT !.res = "raise", !.causa = "unfitted"]

ApiPredictProba ==
    /\ pc["api"] = "predict"
    /\ op["api"] = "proba"
    /\ previsao' = Some(PredictOutcome(mdl["api"], Val(previsao)))
    /\ op' = [op EXCEPT !["api"] = "-"]
    /\ UNCHANGED <<arquivo, escritores, mdl, pc, treinos, fila, publicados,
                   entrega, tabela, retreinado,
                   postagem, pendentes,
                   lote>>

\* the request ends (the response, or the error, leaves the server)
ApiReply ==
    /\ pc["api"] = "predict"
    /\ op["api"] = "-"
    /\ pc' = [pc EXCEPT !["api"] = "up"]
    /\ previsao' = None
    /\ UNCHANGED <<arquivo, escritores, mdl, op, treinos, fila, publicados,
                   entrega, tabela, retreinado,
                   postagem, pendentes,
                   lote>>

\* ------------------------------------------------------- the producers
\* publish_message (rabbitmq.py:15-47): the body is enqueued and True is
\* returned, or the broker fails and False is returned.
Published(q, c, ok) == IF ok THEN Append(q, c) ELSE q

\* mutant: the row rolled back when the publish fails
PostCommitTransactional(t, row, ok) == IF ok THEN Append(t, row) ELSE t
\* lines 446-447: add and commit, before the publish and whatever it returns
PostCommit(t, row, ok) == Append(t, row)
\* lines 449-457: the id the commit gave the row, what publish_message
\* returned (ignored) and the status answered
PostOutcome(t, row, ok) ==
    [checkin_id |-> Len(t) + 1, row |-> row, publicado |-> ok,
     status |-> 201]

\* CheckinList.post (main.py:417-457): the row is committed, then the
\* new_checkin_event is published; the result of the publish is ignored.
ApiPostCheckin(row, ok) ==
    /\ pc["api"] = "up"
    /\ Len(tabela) < MaxRows
    /\ publicados < MaxPublish
    /\ tabela' = PostCommit(tabela, row, ok)
    /\ fila' = Published(fila, "new_checkin_event", ok)
    /\ publicados' = publicados + 1
    /\ postagem' = Some(PostOutcome(tabela, row, ok))
    /\ UNCHANGED <<arquivo, escritores, mdl, pc, op, treinos, entrega,
                   previsao, retreinado, pendentes,
                   lote>>

\* An item of the list POST /checkins/bulk receives: one the loop stores
\* (valido) or one it rejects: no id_aluno, unknown student, bad timestamp,
\* or an exception caught at line 567.
BulkItems == [valido : BOOLEAN, row : Rows]

\* lines 532-569: the loop over the items, each valid one committed on its
\* own and its id appended to processed_checkin_ids
RECURSIVE BulkLoop(_, _)
BulkLoop(itens, acc) ==
    IF itens = <<>> THEN acc
    ELSE IF Head(itens).valido
    THEN BulkLoop(Tail(itens),
                  [tabela |-> Append(acc.tabela, Head(itens).row),
                   processed |-> Append(acc.processed, Len(acc.tabela) + 1),
                   errors |-> acc.errors])
    ELSE BulkLoop(Tail(itens), [acc EXCEPT !.errors = @ + 1])

\* mutant: the event published without the `if processed_checkin_ids`
BulkPayloadAlways(processed) == Some(processed)
\* lines 571-575: the payload of the event, if one is published
BulkPayload(processed) ==
    IF processed # <<>> THEN Some(processed) ELSE None
\* lines 578-588
BulkStatus(errors) == IF errors > 0 THEN 207 ELSE 201

\* BulkCheckins.post (main.py:522-569): the loop
ApiBulkCommit(itens) ==
    /\ pc["api"] = "up"
    /\ publicados < MaxPublish
    /\ Len(tabela) + Len(itens) <= MaxRows + MaxBulk
    /\ LET r == BulkLoop(itens, [tabela |-> tabela, processed |-> <<>>,
                                  errors |-> 0])
       IN  /\ tabela' = r.tabela
           /\ lote' = Some([itens |-> itens, processed |-> r.processed,
                            errors |-> r.errors, fase |-> "committed",
                            payload |-> None, publicado |-> FALSE,
                            status |-> 0])
    /\ pc' = [pc EXCEPT !["api"] = "bulk"]
    /\ UNCHANGED <<arquivo, escritores, mdl, op, treinos, fila, publicados,
                   entrega, previsao, retreinado, postagem, pendentes>>

\* BulkCheckins.post (main.py:571-588): the publish and the answer
ApiBulkPublish(ok) ==
    /\ pc["api"] = "bulk"
    /\ LET l == Val(lote)
           pl == BulkPayload(l.processed)
       IN  /\ fila' = IF pl # None
                       THEN Published(fila, "bulk_checkin_event", ok)
                       ELSE fila
           /\ publicados' = IF pl # None THEN publicados + 1 ELSE publicados
           /\ lote' = Some([l EXCEPT !.fase = "answered", !.payload = pl,
                                     !.publicado = (pl # None /\ ok),
                                     !.status = BulkStatus(l.errors)])
    /\ pc' = [pc EXCEPT !["api"] = "up"]
    /\ UNCHANGED <<arquivo, escritores, mdl, op, treinos, entrega, tabela,
                   previsao, retreinado, postagem, pendentes>>

\* ModelRetrain.post (main.py:591-601)
ApiPostRetrain(ok) ==
    /\ pc["api"] = "up"
    /\ publicados < MaxPublish
    /\ fila' = Published(fila, "retrain_model_event", ok)
    /\ publicados' = publicados + 1
    /\ UNCHANGED <<arquivo, escritores, mdl, pc, op, treinos, entrega,
                   tabela, previsao, retreinado,
                   postagem, pendentes,
                   lote>>

\* Any other producer of the durable queue consumer.py:136 declares: the
\* consumer takes whatever body is on it.
OtherProducer(c) ==
    /\ publicados < MaxPublish
    /\ fila' = Append(fila, c)
    /\ publicados' = publicados + 1
    /\ UNCHANGED <<arquivo, escritores, mdl, pc, op, treinos, entrega,
                   tabela, previsao, retreinado,
                   postagem, pendentes,
                   lote>>

\* ------------------------------------------- process_checkin_message
\* mutant: a prefetch window of two
prefetch_count_two == 1 + 1
\* basic_qos(prefetch_count=1), consumer.py:137
prefetch_count == 1

\* deliveries the broker has sent to the consumer and that are neither
\* acked nor nacked yet
Unacked ==
    Len(pendentes)
    + (IF entrega # None /\ Val(entrega).acks + Val(entrega).nacks = 0
       THEN 1 ELSE 0)

\* The broker sends the head of the queue to the subscribed consumer
\* (basic_consume, lines 142-143) while the consumer's unacknowledged
\* deliveries are fewer than the prefetch window.
BrokerDeliver ==
    /\ pc["consumer"] \in {"idle", "callback"}
    /\ fila # <<>>
    /\ Unacked < prefetch_count
    /\ pendentes' = Append(pendentes, Head(fila))
    /\ fila' = Tail(fila)
    /\ UNCHANGED <<arquivo, escritores, mdl, pc, op, treinos, publicados,
                   entrega, tabela, previsao, retreinado, postagem,
                   lote>>

\* start_consuming (line 144) calls on_message_callback with the next
\* delivery received, one call at a time.
Deliver ==
    /\ pc["consumer"] = "idle"
    /\ entrega = None
    /\ pendentes # <<>>
    /\ entrega' = Some([corpo |-> Head(pendentes), fase |-> "received",
                        acks |-> 0, nacks |-> 0, parsed |-> FALSE,
                        handler |-> "none", relatorio |-> None])
    /\ pendentes' = Tail(pendentes)
    /\ pc' = [pc EXCEPT !["consumer"] = "callback"]
    /\ UNCHANGED <<arquivo, escritores, mdl, op, treinos, fila, publicados,
                   tabela, previsao, retreinado, postagem,
                   lote>>

\* lines 38-39: json.loads raises JSONDecodeError on a malformed body;
\* message_data.get raises AttributeError when the JSON value is no object.
ParseOutcome(e) ==
    IF e.corpo = "malformed" THEN [e EXCEPT !.fase = "except"]
    ELSE IF e.corpo = "array"
    THEN [e EXCEPT !.fase = "except", !.parsed = TRUE, !.handler = "raised"]
    ELSE [e EXCEPT !.fase = "parsed", !.parsed = TRUE]

Parse ==
    /\ entrega # None
    /\ Val(entrega).fase = "received"
    /\ entrega' = Some(ParseOutcome(Val(entrega)))
    /\ UNCHANGED <<arquivo, escritores, mdl, pc, op, treinos, fila,
                   publicados, tabela, previsao, retreinado,
                   postagem, pendentes,
                   lote>>

\* mutant: a type outside the dispatch table is rejected
HandlerOutcomeRejectUnknown(e) ==
    IF e.corpo \in {"bulk_ids_null", "report_bad_date", "foo", "no_type"}
    THEN [e EXCEPT !.fase = "except", !.handler = "raised"]
    ELSE [e EXCEPT !.fase = "handled", !.handler = "ok"]
\* lines 43-106, the handlers that touch no predictor: new_checkin and bulk
\* sleep, the report reads the store, an unknown type only logs.  Iterating
\* checkin_ids = null raises TypeError; fromisoformat raises ValueError.
HandlerOutcome(e) ==
    IF e.corpo \in {"bulk_ids_null", "report_bad_date"}
    THEN [e EXCEPT !.fase = "except", !.handler = "raised"]
    ELSE [e EXCEPT !.fase = "handled", !.handler = "ok"]

\* lines 64-66: report_date of the payload (the body report_dated names
\* the date of Now0), or the current UTC date when the field is absent
report_date_of(c, n) ==
    IF c = "report_dated" THEN Now0 \div TicksPerDay
    ELSE n \div TicksPerDay

\* mutant: the end of the day included in the window
daily_checkins_closed(t, d) ==
    SelectSeq(t, LAMBDA r : /\ r.ts >= d * TicksPerDay
                            /\ r.ts <= (d + 1) * TicksPerDay)
\* lines 71-78: the rows with start_of_day <= timestamp < end_of_day
daily_checkins(t, d) ==
    SelectSeq(t, LAMBDA r : /\ r.ts >= d * TicksPerDay
                            /\ r.ts < (d + 1) * TicksPerDay)

\* lines 80-89: the two totals the report prints
Relatorio(t, d) ==
    [report_date |-> d,
     total_daily_checkins |-> Len(daily_checkins(t, d)),
     total_unique_alunos |->
        Cardinality({daily_checkins(t, d)[i].id_aluno :
                        i \in DOMAIN daily_checkins(t, d)})]

\* the report handler (lines 63-93) reads the store at time n; the other
\* handlers report nothing
Reported(e, t, n) ==
    IF TypeOf(e.corpo) = "generate_daily_report_event" /\ e.handler = "ok"
    THEN [e EXCEPT !.relatorio = Some(Relatorio(t, report_date_of(e.corpo, n)))]
    ELSE e

Dispatch ==
    /\ entrega # None
    /\ Val(entrega).fase = "parsed"
    /\ TypeOf(Val(entrega).corpo) # "retrain_model_event"
    /\ entrega' = Some(Reported(HandlerOutcome(Val(entrega)), tabela, now))
    /\ UNCHANGED <<arquivo, escritores, mdl, pc, op, treinos, fila,
                   publicados, tabela, previsao, retreinado,
                   postagem, pendentes,
                   lote>>

\* lines 96-99: retrain_and_save_model on the consumer's predictor, up to
\* train_model line 41
DispatchRetrain ==
    /\ entrega # None
    /\ Val(entrega).fase = "parsed"
    /\ TypeOf(Val(entrega).corpo) = "retrain_model_event"
    /\ entrega' = Some([Val(entrega) EXCEPT !.fase = "handling"])
    /\ mdl' = [mdl EXCEPT !["consumer"] = TrainBegin(@)]
    /\ op' = [op EXCEPT !["consumer"] = "fit"]
    /\ UNCHANGED <<arquivo, escritores, pc, treinos, fila, publicados,
                   tabela, previsao, retreinado,
                   postagem, pendentes,
                   lote>>

\* line 108: basic_ack
AckClause(e) == [e EXCEPT !.fase = "settled", !.acks = @ + 1]

Ack ==
    /\ entrega # None
    /\ Val(entrega).fase = "handled"
    /\ entrega' = Some(AckClause(Val(entrega)))
    /\ retreinado' = IF Val(entrega).corpo = "retrain_model_event"
                     THEN mdl["consumer"].gen ELSE retreinado
    /\ UNCHANGED <<arquivo, escritores, mdl, pc, op, treinos, fila,
                   publicados, tabela, previsao, postagem, pendentes,
                   lote>>

\* mutant: the except clause rolls back and logs, without basic_nack
ExceptClauseSilent(e) == [e EXCEPT !.fase = "settled"]
\* lines 112-119: both except clauses roll the session back and basic_nack
ExceptClause(e) == [e EXCEPT !.fase = "settled", !.nacks = @ + 1]
\* mutant: basic_nack(requeue=False), the body is dropped
RequeuedNever(q, e0, e1) == q
\* basic_nack requeues by default: the body is back at the head
Requeued(q, e0, e1) == IF e1.nacks > e0.nacks THEN <<e0.corpo>> \o q ELSE q

Nack ==
    /\ entrega # None
    /\ Val(entrega).fase = "except"
    /\ entrega' = Some(ExceptClause(Val(entrega)))
    /\ fila' = Requeued(fila, Val(entrega), ExceptClause(Val(entrega)))
    /\ UNCHANGED <<arquivo, escritores, mdl, pc, op, treinos, publicados,
                   tabela, previsao, retreinado,
                   postagem, pendentes,
                   lote>>

\* lines 120-121: finally closes the session and the callback returns
CallbackReturn ==
    /\ entrega # None
    /\ Val(entrega).fase = "settled"
    /\ entrega' = None
    /\ pc' = [pc EXCEPT !["consumer"] = "idle"]
    /\ UNCHANGED <<arquivo, escritores, mdl, op, treinos, fila, publicados,
                   tabela, previsao, retreinado,
                   postagem, pendentes,
                   lote>>

\* ------------------------------------------------------- the pipeline
Init ==
    /\ plano = NoPlan
    /\ checkins = EmptyBag
    /\ now = Now0
    /\ resp = NoResp
    /\ visto = None
    /\ arquivo \in ArquivoInicial
    /\ escritores = {}
    /\ mdl = [p \in Procs |-> ModelNone]
    /\ pc = [p \in Procs |-> "down"]
    /\ op = [p \in Procs |-> "-"]
    /\ treinos = 0
    /\ fila = <<>>
    /\ publicados = 0
    /\ entrega = None
    /\ tabela = <<>>
    /\ previsao = None
    /\ retreinado = 0
    /\ postagem = None
    /\ pendentes = <<>>
    /\ lote = None

Next ==
    \/ \E p \in Procs :
        \/ Start(p) /\ UNCHANGED riskVars
        \/ LoadExisting(p) /\ UNCHANGED riskVars
        \/ LoadAbsent(p) /\ UNCHANGED riskVars
        \/ Fit(p) /\ UNCHANGED riskVars
        \/ DumpOpen(p) /\ UNCHANGED riskVars
        \/ DumpClose(p) /\ UNCHANGED riskVars
        \/ DumpFail(p) /\ UNCHANGED riskVars
    \/ ApiPredictCall /\ UNCHANGED riskVars
    \/ ApiPredictProba /\ UNCHANGED riskVars
    \/ ApiReply /\ UNCHANGED riskVars
    \/ \E row \in Rows, ok \in BOOLEAN :
        ApiPostCheckin(row, ok) /\ UNCHANGED riskVars
    \/ \E ok \in BOOLEAN : ApiPostRetrain(ok) /\ UNCHANGED riskVars
    \/ \E c \in Corpos : OtherProducer(c) /\ UNCHANGED riskVars
    \/ BrokerDeliver /\ UNCHANGED riskVars
    \/ Deliver /\ UNCHANGED riskVars
    \/ Parse /\ UNCHANGED riskVars
    \/ Dispatch /\ UNCHANGED riskVars
    \/ DispatchRetrain /\ UNCHANGED riskVars
    \/ Ack /\ UNCHANGED riskVars
    \/ Nack /\ UNCHANGED riskVars
    \/ CallbackReturn /\ UNCHANGED riskVars

Spec == Init /\ [][Next]_vars

\* The broker keeps delivering and the blocking consumer loop keeps running
\* its callback to the end: no step of either waits on anything else.
Fairness ==
    /\ WF_vars(BrokerDeliver /\ UNCHANGED riskVars)
    /\ WF_vars(Deliver /\ UNCHANGED riskVars)
    /\ WF_vars(Parse /\ UNCHANGED riskVars)
    /\ WF_vars(Dispatch /\ UNCHANGED riskVars)
    /\ WF_vars(Ack /\ UNCHANGED riskVars)
    /\ WF_vars(Nack /\ UNCHANGED riskVars)
    /\ WF_vars(CallbackReturn /\ UNCHANGED riskVars)

SpecFair == Init /\ [][Next]_vars /\ Fairness

\* --------------------------------------------- the daily report, alone
\* Both processes are up on a stored artifact; the store holds check-ins of
\* two students around the ends of a day and a report request is queued.
ReportAlunos == {1, 2}
ReportTs == {Now0 - 1, Now0, Now0 + TicksPerDay - 1, Now0 + TicksPerDay}
ReportRows == [id_aluno : ReportAlunos, ts : ReportTs]
RECURSIVE SeqsUpTo(_, _)
SeqsUpTo(S, n) ==
    IF n = 0 THEN {<<>>}
    ELSE LET Q == SeqsUpTo(S, n - 1)
         IN  Q \cup {Append(q, x) : q \in Q, x \in S}

InitReport ==
    /\ plano = NoPlan
    /\ checkins = EmptyBag
    /\ now \in {Now0, Now0 + TicksPerDay}
    /\ resp = NoResp
    /\ visto = None
    /\ arquivo = Arq("complete", 0)
    /\ escritores = {}
    /\ mdl = [p \in Procs |-> Fitted(0)]
    /\ pc = [p \in Procs |-> IF p = "api" THEN "up" ELSE "idle"]
    /\ op = [p \in Procs |-> "-"]
    /\ treinos = 0
    /\ fila \in {<<c>> : c \in {"generate_daily_report_event",
                                 "report_dated", "report_bad_date"}}
    /\ publicados = 1
    /\ entrega = None
    /\ tabela \in SeqsUpTo(ReportRows, MaxReportRows)
    /\ previsao = None
    /\ retreinado = 0
    /\ postagem = None
    /\ pendentes = <<>>
    /\ lote = None

NextReport ==
    \/ \E row \in Rows, ok \in BOOLEAN :
        ApiPostCheckin(row, ok) /\ UNCHANGED riskVars
    \/ BrokerDeliver /\ UNCHANGED riskVars
    \/ Deliver /\ UNCHANGED riskVars
    \/ Parse /\ UNCHANGED riskVars
    \/ Dispatch /\ UNCHANGED riskVars
    \/ Ack /\ UNCHANGED riskVars
    \/ Nack /\ UNCHANGED riskVars
    \/ CallbackReturn /\ UNCHANGED riskVars

SpecReport == InitReport /\ [][NextReport]_vars

\* ------------------------------------------- the check-in posts, alone
InitBulk ==
    /\ plano = NoPlan
    /\ checkins = EmptyBag
    /\ now = Now0
    /\ resp = NoResp
    /\ visto = None
    /\ arquivo = Arq("complete", 0)
    /\ escritores = {}
    /\ mdl = [p \in Procs |-> Fitted(0)]
    /\ pc = [p \in Procs |-> IF p = "api" THEN "up" ELSE "idle"]
    /\ op = [p \in Procs |-> "-"]
    /\ treinos = 0
    /\ fila = <<>>
    /\ publicados = 0
    /\ entrega = None
    /\ tabela = <<>>
    /\ previsao = None
    /\ retreinado = 0
    /\ postagem = None
    /\ pendentes = <<>>
    /\ lote = None

NextBulk ==
    \/ \E itens \in SeqsUpTo(BulkItems, MaxBulk) \ {<<>>} :
        ApiBulkCommit(itens) /\ UNCHANGED riskVars
    \/ \E ok \in BOOLEAN : ApiBulkPublish(ok) /\ UNCHANGED riskVars
    \/ \E row \in Rows, ok \in BOOLEAN :
        ApiPostCheckin(row, ok) /\ UNCHANGED riskVars

SpecBulk == InitBulk /\ [][NextBulk]_vars

\* ------------------------------------------------- risk query, as steps
\* GET /alunos/<id>/risco-churn: the predictor is called with the feature
\* vector and answers p.
GetRiscoChurn(p) ==
    /\ resp = NoResp
    /\ resp' = Some(RiscoChurn(plano, checkins, now, p))
    /\ UNCHANGED <<plano, checkins, now, visto>>
    /\ UNCHANGED pipeVars

\* the response leaves the server
Reply ==
    /\ resp # NoResp
    /\ resp' = NoResp
    /\ UNCHANGED <<plano, checkins, now, visto>>
    /\ UNCHANGED pipeVars

InitRisk ==
    /\ plano \in PlanSet
    /\ checkins \in BagsUpTo(MaxCheckins)
    /\ now = Now0
    /\ resp = NoResp
    /\ visto = None
    /\ PipeIdle

NextRisk ==
    \/ \E p \in ProbSet : GetRiscoChurn(p)
    \/ Reply

SpecRisk == InitRisk /\ [][NextRisk]_vars

\* ------------------------------------ risk query, as the clock advances
\* datetime.now(timezone.utc) is later at a later request.
Tick ==
    /\ resp = NoResp
    /\ now < Now0 + MaxTicks
    /\ now' = now + 1
    /\ UNCHANGED <<plano, checkins, resp, visto>>
    /\ UNCHANGED pipeVars

\* the response leaves the server; the client keeps the days it reported
ReplySeen ==
    /\ resp # NoResp
    /\ resp' = NoResp
    /\ visto' = Val(resp).dias_desde_ultimo_checkin
    /\ UNCHANGED <<plano, checkins, now>>
    /\ UNCHANGED pipeVars

InitClock ==
    /\ plano \in PlanSet
    /\ checkins \in BagsUpTo(MaxClockCheckins) \cup {HistoricoA}
    /\ now = Now0
    /\ resp = NoResp
    /\ visto = None
    /\ PipeIdle

NextClock ==
    \/ \E p \in ProbSet : GetRiscoChurn(p)
    \/ ReplySeen
    \/ Tick

SpecClock == InitClock /\ [][NextClock]_vars


\* ======================================================= risk-query claims
Answered == resp # NoResp
R == Val(resp)
HistoryEmpty == Present(checkins) = {}
Recent == {r \in Present(checkins) : r.ts >= now - 30 * TicksPerDay}
NRecent == BagCount(Recent, checkins)
Total == BagCount(Present(checkins), checkins)
Earliest == SetMin({r.ts : r \in Present(checkins)})
Latest == SetMax({r.ts : r \in Present(checkins)})
AgeDays == (now - Earliest) \div TicksPerDay
MotivoKinds == {m[1] : m \in R.motivos}

\* C1: for a student with empty check-in history the answer is tier
\* Indeterminado with exactly the one empty-history reason, for every plan
\* and whether the model answered a probability or None.
C1_EmptyHistoryIndeterminate ==
    (Answered /\ HistoryEmpty) =>
        /\ R.risco_churn_classificacao = "Indeterminado"
        /\ R.motivos = {<<MsgSemCheckins, 0>>}
\* an empty history answered while the model gave a Very-High probability
C1_Witness ==
    /\ Answered /\ HistoryEmpty
    /\ R.churn_prob # None
    /\ 10 * Val(R.churn_prob) >= 7 * ProbScale
    /\ plano = "Anual"

\* C2: with non-empty history and a probability p, the tier is Muito Alto
\* iff p >= 0.70, Alto iff 0.50 <= p < 0.70, Medio iff 0.30 <= p < 0.50 and
\* Baixo iff p < 0.30.
C2_TierBins ==
    (Answered /\ ~HistoryEmpty /\ R.churn_prob # None) =>
        LET p == Val(R.churn_prob)
            t == R.risco_churn_classificacao
        IN  /\ t \in {"Muito Alto", "Alto", "Medio", "Baixo"}
            /\ (t = "Muito Alto") <=> (10 * p >= 7 * ProbScale)
            /\ (t = "Alto") <=> (10 * p >= 5 * ProbScale /\ 10 * p < 7 * ProbScale)
            /\ (t = "Medio") <=> (10 * p >= 3 * ProbScale /\ 10 * p < 5 * ProbScale)
            /\ (t = "Baixo") <=> (10 * p < 3 * ProbScale)
\* p exactly 0.50 lands in Alto
C2_Witness ==
    /\ Answered /\ ~HistoryEmpty
    /\ R.churn_prob # None
    /\ 10 * Val(R.churn_prob) = 5 * ProbScale
    /\ R.risco_churn_classificacao = "Alto"

\* C3: when the tier is Baixo the reasons are only the tier/probability
\* message: none of the three contextual reasons appears, even when their
\* numeric conditions hold.
C3_LowTierNoContext ==
    (Answered /\ R.risco_churn_classificacao = "Baixo") =>
        /\ MotivoKinds \cap Contextual = {}
        /\ R.motivos = {<<MsgBaixa, Prob2(Val(R.churn_prob))>>}
\* tier Baixo while all three numeric conditions hold
C3_Witness ==
    /\ Answered /\ ~HistoryEmpty
    /\ R.risco_churn_classificacao = "Baixo"
    /\ (now - Latest) \div TicksPerDay > 15
    /\ Total > 5
    /\ R.duracao_media_visitas_minutos < 300
    /\ R.frequencia_semanal < 100

\* C9: with a check-in in the last 30 days (timestamp >= now - 30 days) the
\* weekly frequency is count(last 30 days) / (30/7); with none, it is the
\* base estimate count(history) / age_in_days * 7 (0 when the age is 0).
C9_WeeklyFrequency ==
    (Answered /\ ~HistoryEmpty) =>
        /\ NRecent > 0 =>
            /\ FracEq(R.aluno_metrics.frequencia_semanal, Frac(7 * NRecent, 30))
            /\ R.frequencia_semanal = Round(7 * NRecent, 30, 100)
        /\ NRecent = 0 =>
            /\ AgeDays > 0 =>
                /\ FracEq(R.aluno_metrics.frequencia_semanal,
                          Frac(7 * Total, AgeDays))
                /\ R.frequencia_semanal = Round(7 * Total, AgeDays, 100)
            /\ AgeDays <= 0 => R.frequencia_semanal = 0
\* the override wins over a different, non-zero base estimate, the only
\* recent check-in lying exactly on the window's lower bound
C9_Witness ==
    /\ Answered /\ ~HistoryEmpty
    /\ NRecent > 0
    /\ \A r \in Recent : r.ts = now - 30 * TicksPerDay
    /\ AgeDays > 0
    /\ Round(7 * Total, AgeDays, 100) # R.frequencia_semanal

\* C10: with non-empty history and no probability, the tier is Erro na
\* Previsao, the reasons are exactly the model-unavailable message and the
\* probability is reported as N/A.
C10_ModelUnavailable ==
    (Answered /\ ~HistoryEmpty /\ R.churn_prob = None) =>
        /\ R.risco_churn_classificacao = "Erro na Previsao"
        /\ R.motivos = {<<MsgErro, 0>>}
        /\ R.probabilidade_churn = NA
\* no probability while the contextual conditions hold
C10_Witness ==
    /\ Answered /\ ~HistoryEmpty
    /\ R.churn_prob = None
    /\ (now - Latest) \div TicksPerDay > 15
    /\ Total > 5
    /\ R.frequencia_semanal < 100


\* C13: for a fixed non-empty check-in set the days since the last check-in
\* are the whole days (floor) from the greatest timestamp to now, and a later
\* query never reports fewer days than an earlier one.
C13_DaysMonotone ==
    (Answered /\ ~HistoryEmpty) =>
        LET d == Val(R.dias_desde_ultimo_checkin)
        IN  /\ d * TicksPerDay <= now - Latest
            /\ now - Latest < (d + 1) * TicksPerDay
            /\ R.aluno_metrics.dias_desde_ultimo_checkin = d
            /\ visto # None => Val(visto) <= d
\* a later query reports more days than the earlier one, over a history of
\* two different timestamps
C13_Witness ==
    /\ Answered /\ ~HistoryEmpty
    /\ visto # None
    /\ Val(visto) < Val(R.dias_desde_ultimo_checkin)
    /\ Earliest < Latest

\* C14: every feature vector handed to the model is in the data model's
\* ranges: days an integer >= 0, or 999 exactly when the history is empty;
\* weekly frequency >= 0; average duration >= 0; plan code 1, 2, 3 for
\* Mensal, Trimestral, Anual and 0 for any other or no plan.
C14_FeatureRanges ==
    Answered =>
        LET m == R.aluno_metrics
        IN  /\ m.dias_desde_ultimo_checkin >= 0
            /\ (m.dias_desde_ultimo_checkin = 999) <=> HistoryEmpty
            /\ m.frequencia_semanal.num >= 0 /\ m.frequencia_semanal.den > 0
            /\ m.duracao_media_visitas_minutos >= 0
            /\ m.tipo_plano_encoded \in 0..3
            /\ (m.tipo_plano_encoded = 1) <=> (plano = "Mensal")
            /\ (m.tipo_plano_encoded = 2) <=> (plano = "Trimestral")
            /\ (m.tipo_plano_encoded = 3) <=> (plano = "Anual")

\* C15: scenario A: plan Mensal, check-ins 1, 5 and 40 days before now with
\* durations 60, 55 and none: plan code 1, 1 day since the last check-in,
\* average duration 38.3 (115 / 3) and weekly frequency 0.47 (2 / (30/7)).
C15_ScenarioA ==
    (Answered /\ checkins = HistoricoA /\ plano = "Mensal" /\ now = Now0) =>
        /\ R.tipo_plano_encoded = 1
        /\ R.dias_desde_ultimo_checkin = Some(1)
        /\ R.duracao_media_visitas_minutos = 383
        /\ R.aluno_metrics.duracao_media_visitas_minutos = 383
        /\ R.frequencia_semanal = 47
        /\ FracEq(R.aluno_metrics.frequencia_semanal, Frac(2 * 7, 30))
        /\ R.total_checkins_registrados = 3
\* scenario A answered with a probability
C15_Witness ==
    /\ Answered
    /\ checkins = HistoricoA /\ plano = "Mensal" /\ now = Now0
    /\ R.churn_prob # None
    /\ R.risco_churn_classificacao = "Medio"


\* C16: with an empty history no model probability is computed: the
\* answer carries no probability, the days are N/A and the duration and
\* the frequency are zero.
C16_EmptyHistoryNoProbability ==
    (Answered /\ HistoryEmpty) =>
        /\ R.churn_prob = None
        /\ R.probabilidade_churn = NA
        /\ R.dias_desde_ultimo_checkin = NA
        /\ R.duracao_media_visitas_minutos = 0
        /\ R.frequencia_semanal = 0


\* ========================================================= pipeline claims
Delivering == entrega # None
E == Val(entrega)
UnknownType(c) == c \in {"foo", "no_type"}

\* C4: every delivery handed to process_checkin_message is settled exactly
\* once by the time the callback returns: acked iff the body parsed and the
\* handler completed, nacked iff parsing failed or the dispatch or handler
\* raised; never both.
C4_Settlement ==
    Delivering =>
        /\ E.acks + E.nacks <= 1
        /\ E.fase = "settled" =>
            /\ E.acks + E.nacks = 1
            /\ (E.acks = 1) <=> (E.parsed /\ E.handler = "ok")
            /\ (E.nacks = 1) <=> (~E.parsed \/ E.handler = "raised")
C4_ReturnsSettled ==
    (Delivering /\ entrega' = None) => (E.acks + E.nacks = 1)
C4_SettledExactlyOnce == [](C4_Settlement) /\ [][C4_ReturnsSettled]_vars
\* a retrain whose save failed has been nacked
C4_Witness ==
    /\ Delivering
    /\ E.fase = "settled"
    /\ E.corpo = "retrain_model_event"
    /\ E.handler = "raised"
    /\ E.nacks = 1

\* C5: a message of unknown type (or with no type) is acknowledged, never
\* nacked or requeued, and no step of its processing changes the model
\* file, the consumer's model, the store or the consumer's liveness.
C5_UnknownState ==
    (Delivering /\ UnknownType(E.corpo)) =>
        /\ E.nacks = 0
        /\ E.fase \in {"received", "parsed", "handled", "settled"}
        /\ E.fase = "settled" => E.acks = 1
        /\ op["consumer"] = "-"
        /\ pc["consumer"] = "callback"
C5_UnknownStep ==
    (Delivering /\ UnknownType(E.corpo) /\ entrega' # entrega) =>
        /\ arquivo' = arquivo
        /\ mdl'["consumer"] = mdl["consumer"]
        /\ tabela' = tabela
        /\ fila' = fila
        /\ pc'["consumer"] \in {"callback", "idle"}
C5_UnknownTypeAcked == [](C5_UnknownState) /\ [][C5_UnknownStep]_vars
\* a body without a type field has been acked
C5_Witness ==
    /\ Delivering
    /\ E.corpo = "no_type"
    /\ E.fase = "settled"
    /\ E.acks = 1

\* C6: a prediction issued by the API after a retrain was handled and acked
\* is computed with that retrain's artifact (or a later one).
C6_PredictionUsesRetrained ==
    (previsao # None /\ Val(previsao).res = "prob") =>
        Val(previsao).gen >= Val(previsao).exigido

\* C7: the artifact swap is atomic: no load reads a file another process is
\* still writing, and no prediction reads an estimator not yet fitted.
C7_AtomicSwap ==
    /\ \A p \in Procs : pc[p] # "crashed_partial"
    /\ previsao # None =>
        ~(/\ Val(previsao).res = "raise"
          /\ Val(previsao).causa \in {"crashed_partial", "unfitted"})

\* C8: predict_churn_probability never raises to its caller; with no
\* artifact, and with a failing load or train, it returns None.
C8_PredictNeverRaises ==
    previsao # None => Val(previsao).res # "raise"

Posted == postagem # None
P == Val(postagem)

\* C11: publish_message answers True only when the message was enqueued and
\* False when the broker failed; either way POST /checkins keeps the row it
\* committed and answers 201, so with a failed publish the row is stored
\* and no event exists for it.
C11_PostState ==
    Posted =>
        /\ P.status = 201
        /\ P.publicado \in BOOLEAN
        /\ P.checkin_id \in DOMAIN tabela
        /\ tabela[P.checkin_id] = P.row
C11_PostStep ==
    (postagem' # postagem) =>
        /\ tabela' = Append(tabela, Val(postagem').row)
        /\ Val(postagem').status = 201
        /\ Val(postagem').publicado =>
                fila' = Append(fila, "new_checkin_event")
        /\ ~Val(postagem').publicado => fila' = fila
C11_PublishBestEffort == [](C11_PostState) /\ [][C11_PostStep]_vars
\* the publish failed: the row is stored, 201 was answered and no message
\* is anywhere
C11_Witness ==
    /\ Posted
    /\ ~P.publicado
    /\ P.status = 201
    /\ tabela = <<P.row>>
    /\ publicados = 1
    /\ fila = <<>> /\ pendentes = <<>> /\ entrega = None

\* C12: the consumer holds at most one unacknowledged delivery: the broker
\* sends the next message only once the previous one is acked or nacked,
\* and process_checkin_message is called with it only after the previous
\* call has returned.
C12_State ==
    /\ Len(pendentes)
       + (IF Delivering /\ E.acks + E.nacks = 0 THEN 1 ELSE 0) <= 1
    /\ (Delivering /\ pendentes # <<>>) => E.fase = "settled"
C12_Step ==
    (entrega' # None /\ entrega' # entrega
     /\ Val(entrega').fase = "received") => entrega = None
C17_LoadFailureTrains ==
    /\ \A p \in Procs : pc[p] \notin {"crashed_load", "crashed_partial"}
    /\ previsao # None =>
        ~(/\ Val(previsao).res = "raise"
          /\ Val(previsao).causa \in {"crashed_load", "crashed_partial"})

\* C18: a failing save during retrain does not fail the retrain: the handler
\* of a retrain_model_event never raises and the message is never nacked.
C18_SaveFailureAcked ==
    (Delivering /\ E.corpo = "retrain_model_event") =>
        /\ E.handler # "raised"
        /\ E.nacks = 0

\* messages the broker still has to get acknowledged
Owed ==
    Len(fila) + Len(pendentes)
    + (IF Delivering /\ E.fase # "settled" THEN 1 ELSE 0)
Failing == {"malformed", "array", "bulk_ids_null", "report_bad_date"}

\* C19: a message leaves the queue only by the ack that follows its handler
\* (or the finding that its type is unknown); a delivery that fails to parse
\* or whose handler raises is nacked and is back at the head of the queue,
\* is never acked, and a malformed message is delivered again after every
\* nack, without end.
C19_NeverAcked == (Delivering /\ E.corpo \in Failing) => E.acks = 0
C19_LeavesByAck ==
    (Owed' < Owed) =>
        /\ Delivering /\ entrega' # None
        /\ E.handler = "ok"
        /\ E.acks = 0 /\ Val(entrega').acks = 1
        /\ Owed' = Owed - 1
C19_NackRequeues ==
    (Delivering /\ entrega' # None /\ Val(entrega').nacks > E.nacks) =>
        /\ fila' # <<>>
        /\ Head(fila') = E.corpo
        /\ Owed' = Owed
C19_Again ==
    (Delivering /\ E.corpo = "malformed" /\ E.fase = "settled")
        ~> (Delivering /\ E.corpo = "malformed" /\ E.fase = "received")
C19_AtLeastOnce ==
    /\ [](C19_NeverAcked)
    /\ [][C19_LeavesByAck /\ C19_NackRequeues]_vars
    /\ C19_Again
\* the only message ever published is malformed, was nacked and has been
\* sent to the consumer again
C19_Witness ==
    /\ publicados = 1
    /\ Delivering
    /\ E.corpo = "malformed"
    /\ E.fase = "settled"
    /\ E.nacks = 1
    /\ pendentes = <<"malformed">>

\* C20: once its construction has finished a predictor is Loaded and an
\* artifact is on storage (complete, or being rewritten), through every
\* later retrain and predict.
C20_LoadedAfterConstruction ==
    \A p \in Procs :
        pc[p] \in {"up", "idle", "callback", "predict"} =>
            /\ Truthy(mdl[p])
            /\ arquivo.st \in {"complete", "partial"}

IsReport(c) == c \in {"generate_daily_report_event", "report_dated"}
\* the rows of store t whose timestamp lies in day d, start included and
\* end excluded
InDay(t, d) ==
    {i \in DOMAIN t : /\ d * TicksPerDay <= t[i].ts
                      /\ t[i].ts < d * TicksPerDay + TicksPerDay}

\* C21: the report handler reports the number of check-ins with
\* start_of_day <= t < start_of_day + 1 day and the number of distinct
\* students among them, for the payload's report_date or, without one, the
\* current UTC date; it only reads the store, and the message is acked
\* after the report.
C21_Reports ==
    (Delivering /\ E.relatorio = None /\ entrega' # None
     /\ Val(entrega').relatorio # None) =>
        LET rel == Val(Val(entrega').relatorio)
            d == IF E.corpo = "report_dated" THEN Now0 \div TicksPerDay
                 ELSE now \div TicksPerDay
        IN  /\ IsReport(E.corpo)
            /\ rel.report_date = d
            /\ rel.total_daily_checkins = Cardinality(InDay(tabela, d))
            /\ rel.total_unique_alunos =
                   Cardinality({tabela[i].id_aluno : i \in InDay(tabela, d)})
            /\ tabela' = tabela
C21_ReadsOnly ==
    (Delivering /\ IsReport(E.corpo) /\ entrega' # entrega) =>
        tabela' = tabela
C21_AckedAfter ==
    (Delivering /\ IsReport(E.corpo)) =>
        /\ E.acks = 1 => E.relatorio # None
        /\ E.fase = "settled" => (E.acks = 1 /\ E.nacks = 0)
C21_DailyReport ==
    /\ [](C21_AckedAfter)
    /\ [][C21_Reports /\ C21_ReadsOnly]_vars
\* a report without a date was acked: the store holds a row on the start of
\* the day, one on its last tick and one on its end, the first two of the
\* same student
C21_Witness ==
    /\ Delivering
    /\ E.corpo = "generate_daily_report_event"
    /\ E.acks = 1
    /\ now = Now0
    /\ Len(tabela) = 3
    /\ \E i, j, k \in DOMAIN tabela :
        /\ tabela[i].ts = Now0
        /\ tabela[j].ts = Now0 + TicksPerDay - 1
        /\ tabela[k].ts = Now0 + TicksPerDay
        /\ tabela[i].id_aluno = tabela[j].id_aluno
    /\ Val(E.relatorio).total_daily_checkins = 2
    /\ Val(E.relatorio).total_unique_alunos = 1

Bulk == lote # None
L == Val(lote)
Valid(itens) == SelectSeq(itens, LAMBDA it : it.valido)

\* C22: an event is published only after the check-ins it names were
\* committed; POST /checkins/bulk publishes one bulk_checkin_event iff at
\* least one item was committed, naming exactly the ids of the committed
\* items in request order, and answers 207 iff an item was rejected, else
\* 201.
C22_Committed ==
    Bulk =>
        /\ Len(L.processed) = Len(Valid(L.itens))
        /\ L.errors = Len(L.itens) - Len(Valid(L.itens))
        /\ \A k \in DOMAIN L.processed :
            /\ L.processed[k] \in DOMAIN tabela
            /\ tabela[L.processed[k]] = Valid(L.itens)[k].row
            /\ k > 1 => L.processed[k - 1] < L.processed[k]
        /\ L.fase = "committed" => (L.payload = None /\ ~L.publicado)
        /\ L.fase = "answered" =>
            /\ (L.payload # None) <=> (Len(Valid(L.itens)) > 0)
            /\ L.payload # None => Val(L.payload) = L.processed
            /\ (L.status = 207) <=> (Len(Valid(L.itens)) < Len(L.itens))
            /\ (L.status = 201) <=> (Len(Valid(L.itens)) = Len(L.itens))
C22_PublishStep ==
    /\ (fila' # fila) =>
        \/ /\ fila' = Append(fila, "bulk_checkin_event")
           /\ Bulk /\ L.fase = "committed" /\ L.processed # <<>>
           /\ \A k \in DOMAIN L.processed : L.processed[k] \in DOMAIN tabela
           /\ Val(lote').publicado
        \/ /\ fila' = Append(fila, "new_checkin_event")
           /\ Val(postagem').publicado
           /\ Val(postagem').checkin_id \in DOMAIN tabela'
    /\ (Bulk /\ L.fase = "committed" /\ lote' # lote) =>
        /\ Val(lote').fase = "answered"
        /\ tabela' = tabela
        /\ ~Val(lote').publicado => fila' = fila
C22_ProducerOrdering == [](C22_Committed) /\ [][C22_PublishStep]_vars
\* a request of three items whose second was rejected: ids 1 and 2 were
\* committed and named by the one event published, and 207 was answered
C22_Witness ==
    /\ Bulk
    /\ L.fase = "answered"
    /\ Len(L.itens) = 3
    /\ L.itens[1].valido /\ ~L.itens[2].valido /\ L.itens[3].valido
    /\ L.itens[1].row # L.itens[3].row
    /\ L.payload = Some(<<1, 2>>)
    /\ L.status = 207
    /\ fila = <<"bulk_checkin_event">>

\* feature vectors to compare predictions on
Amostras ==
    {aluno_metrics_of(pl, b, Now0) : pl \in {NoPlan, "Mensal"},
                                     b \in {EmptyBag, HistoricoA}}
\* the fitted models that exist: in a process, or stored in the file
Artefatos ==
    {mdl[p] : p \in {q \in Procs : mdl[q].st = "fitted"}}
    \cup (IF arquivo.st = "complete" THEN {Fitted(arquivo.gen)} ELSE {})

=============================================================================
